---- MODULE Spec2Model ----
(***************************************************************************)
(* Output caching of fluent_contents.extensions.pluginbase.ContentPlugin:  *)
(* the cache key derivation, the per-site key listing, the cache get/set   *)
(* methods and render(), together with the collaborators they talk to (the *)
(* Site table, the cache backend, the invalidation done on save and the    *)
(* render pipeline that wraps render() with the cache).                    *)
(***************************************************************************)
EXTENDS Integers, Sequences, FiniteSets, TLC

VARIABLES
    plugin,     \* the ContentPlugin instance: its class attributes
    SITE_IDS,   \* the rows of the Site table, by primary key
    cache,      \* django.core.cache.cache: a partial function key -> value
    req,        \* the call in progress, or the last call made, and what it returned
    lastSet,    \* per item: its last set_cached_output() call, None once cleared
    page,       \* the page being rendered: its items in order and the blocks so far
    contenttypes, \* the django_content_type table: None before the initial syncdb,
                \* then the id of the row of the plugin's model
    reqs        \* the pipeline calls of the threads that render at the same time

vars == <<plugin, SITE_IDS, cache, req, lastSet, page, contenttypes, reqs>>

\* What the calls of the plugin's methods leave alone.
others == <<page, contenttypes, reqs>>

----------------------------------------------------------------------------
(* Bounds and input sets *)

\* Site primary keys and settings.SITE_ID values are drawn from 1..MaxSite.
MaxSite == 2

SiteIds == 1..MaxSite

\* The content items: (placeholder name, instance primary key).
ContentItems == {[placeholder |-> "main", pk |-> 1], [placeholder |-> "main", pk |-> 2]}

\* Rendered markup: what the template renders an item to (the item's fields are
\* not changed here, so it is one text per item), and what a caller can store.
ItemHtml(pk) == "<p>item " \o ToString(pk) \o "</p>"

Htmls == {ItemHtml(it.pk) : it \in ContentItems}

\* Python's None, and a value that is present.
None == <<>>
Some(v) == <<v>>

NoItem == [placeholder |-> "", pk |-> 0]

----------------------------------------------------------------------------
(* The plugin class attributes *)

NoTemplate == ""

Plugins ==
    [cache_output : BOOLEAN, cache_output_per_site : BOOLEAN,
     render_template : {NoTemplate, "plugins/item.html"}, name : {"ItemPlugin"},
     _type_id : {None}]

\* A plugin whose output is cached whatever the attribute says.
cache_output_always == TRUE

cache_output == plugin.cache_output

cache_output_per_site == plugin.cache_output_per_site

----------------------------------------------------------------------------
(* Cache keys *)

\* fluent_contents.cache.get_rendering_cache_key(placeholder_name, contentitem)
get_rendering_cache_key(placeholder_name, instance) ==
    "contentitem.@" \o placeholder_name \o "." \o ToString(instance.pk)

\* "{0}-s{1}".format(cachekey, site_id)
SiteKey(cachekey, site_id) == cachekey \o "-s" \o ToString(site_id)

\* A get_output_cache_key that appends the site suffix whatever the attribute says.
get_output_cache_key_always_site(SITE_ID, placeholder_name, instance) ==
    SiteKey(get_rendering_cache_key(placeholder_name, instance), SITE_ID)

\* A get_output_cache_key that forgets the site suffix.
get_output_cache_key_no_site(SITE_ID, placeholder_name, instance) ==
    get_rendering_cache_key(placeholder_name, instance)

\* ContentPlugin.get_output_cache_key, called with settings.SITE_ID = SITE_ID
get_output_cache_key(SITE_ID, placeholder_name, instance) ==
    LET cachekey == get_rendering_cache_key(placeholder_name, instance)
    IN  IF cache_output_per_site THEN SiteKey(cachekey, SITE_ID) ELSE cachekey

\* list(Site.objects.values_list('pk', flat=True)): the primary keys of the
\* rows, each once. No operation here depends on the order of the rows.
RECURSIVE SiteList(_)
SiteList(S) ==
    IF S = {} THEN <<>>
    ELSE LET m == CHOOSE x \in S : \A y \in S : x <= y
         IN  <<m>> \o SiteList(S \ {m})

Range(s) == {s[n] : n \in DOMAIN s}

\* A get_output_cache_keys that appends SITE_ID without looking it up in the list.
get_output_cache_keys_always_append(SITE_ID, placeholder_name, instance) ==
    IF cache_output_per_site
    THEN LET site_ids == Append(SiteList(SITE_IDS), SITE_ID)
             base_key == get_rendering_cache_key(placeholder_name, instance)
         IN  [n \in DOMAIN site_ids |-> SiteKey(base_key, site_ids[n])]
    ELSE <<get_output_cache_key(SITE_ID, placeholder_name, instance)>>

\* A get_output_cache_keys that lists the sites of the Site table only.
get_output_cache_keys_table_only(SITE_ID, placeholder_name, instance) ==
    IF cache_output_per_site
    THEN LET site_ids == SiteList(SITE_IDS)
             base_key == get_rendering_cache_key(placeholder_name, instance)
         IN  [n \in DOMAIN site_ids |-> SiteKey(base_key, site_ids[n])]
    ELSE <<get_output_cache_key(SITE_ID, placeholder_name, instance)>>

\* ContentPlugin.get_output_cache_keys, called with settings.SITE_ID = SITE_ID
get_output_cache_keys(SITE_ID, placeholder_name, instance) ==
    IF cache_output_per_site
    THEN LET listed == SiteList(SITE_IDS)
             site_ids == IF SITE_ID \notin Range(listed)
                         THEN Append(listed, SITE_ID) ELSE listed
             base_key == get_rendering_cache_key(placeholder_name, instance)
         IN  [n \in DOMAIN site_ids |-> SiteKey(base_key, site_ids[n])]
    ELSE <<get_output_cache_key(SITE_ID, placeholder_name, instance)>>

----------------------------------------------------------------------------
(* The cache backend *)

\* cache.get(key): the value, or None when the key is not set
CacheGet(key) == IF key \in DOMAIN cache THEN Some(cache[key]) ELSE None

\* cache.set(key, value): the store afterwards
CacheSet(key, value) ==
    [k \in DOMAIN cache \cup {key} |-> IF k = key THEN value ELSE cache[k]]

\* cache.delete_many(keys): the store afterwards
CacheDeleteMany(keys) == [k \in DOMAIN cache \ Range(keys) |-> cache[k]]

\* A get_cached_output that reads the key of the first site, not of SITE_ID.
get_cached_output_first_site(SITE_ID, placeholder_name, instance) ==
    CacheGet(get_output_cache_key(1, placeholder_name, instance))

\* ContentPlugin.get_cached_output: what it returns
get_cached_output(SITE_ID, placeholder_name, instance) ==
    CacheGet(get_output_cache_key(SITE_ID, placeholder_name, instance))

\* A set_cached_output that does not reach the store.
set_cached_output_skipped(SITE_ID, placeholder_name, instance, html) == cache

\* A set_cached_output that stores under the key without the site suffix.
set_cached_output_base_key(SITE_ID, placeholder_name, instance, html) ==
    CacheSet(get_rendering_cache_key(placeholder_name, instance), html)

\* A set_cached_output that stores under the key of every site.
set_cached_output_every_site(SITE_ID, placeholder_name, instance, html) ==
    LET keys == Range(get_output_cache_keys(SITE_ID, placeholder_name, instance))
    IN  [k \in DOMAIN cache \cup keys |-> IF k \in keys THEN html ELSE cache[k]]

\* ContentPlugin.set_cached_output: the store afterwards
set_cached_output(SITE_ID, placeholder_name, instance, html) ==
    CacheSet(get_output_cache_key(SITE_ID, placeholder_name, instance), html)

----------------------------------------------------------------------------
(* Rendering *)

Hooks == {"get_render_template", "get_context", "render_to_string"}

\* The exception a hook raises when it fails: str(error), character by character.
ErrorOf(hook) ==
    CASE hook = "get_render_template" -> <<"n", "o", " ", "<", "t", ">">>
      [] hook = "get_context"         -> <<"a", "&", "b">>
      [] OTHER                        -> <<"b", "a", "d", "\n", "\"", "x", "\"">>

\* django.utils.html.escape, one character
EscapeChar(c) ==
    CASE c = "&"  -> "&amp;"
      [] c = "<"  -> "&lt;"
      [] c = ">"  -> "&gt;"
      [] c = "\"" -> "&quot;"
      [] c = "'"  -> "&#39;"
      [] OTHER    -> c

\* An escape that lets every character through.
escape_nothing(chars) == chars

\* django.utils.html.escape
escape(chars) == [n \in DOMAIN chars |-> EscapeChar(chars[n])]

RECURSIVE Join(_)
Join(parts) == IF parts = <<>> THEN "" ELSE Head(parts) \o Join(Tail(parts))

\* The number of newlines in a row from position n on.
RECURSIVE NewlineRun(_, _)
NewlineRun(parts, n) ==
    IF n <= Len(parts) /\ parts[n] = "\n" THEN 1 + NewlineRun(parts, n + 1) ELSE 0

\* django.utils.html.linebreaks from position n on, inside a paragraph: a run of
\* two or more newlines ends the paragraph and starts the next one, a single
\* newline becomes <br />
RECURSIVE linebreaks_from(_, _)
linebreaks_from(parts, n) ==
    IF n > Len(parts) THEN <<>>
    ELSE IF NewlineRun(parts, n) >= 2
    THEN <<"</p>\n\n<p>">> \o linebreaks_from(parts, n + NewlineRun(parts, n))
    ELSE IF parts[n] = "\n"
    THEN <<"<br />">> \o linebreaks_from(parts, n + 1)
    ELSE <<parts[n]>> \o linebreaks_from(parts, n + 1)

\* django.utils.html.linebreaks, as the fragments of its output
linebreaks_parts(parts) == <<"<p>">> \o linebreaks_from(parts, 1) \o <<"</p>">>

linebreaks(parts) == Join(linebreaks_parts(parts))

\* ContentPlugin.render_error, as the fragments of its output: the opening of the
\* block, linebreaks(escape(str(error))), the closing
render_error_parts(error) ==
    <<"<div style=\"color: red; border: 1px solid red; padding: 5px;\">"
        \o "<p><strong>" \o "Error:" \o "</strong></p>">>
        \o linebreaks_parts(escape(error)) \o <<"</div>">>

\* ContentPlugin.render_error
render_error(error) == Join(render_error_parts(error))

\* ContentPlugin.get_render_template
get_render_template == plugin.render_template

\* unicode(_(u"{No rendering defined for class '%s'}" % self.__class__.__name__))
NoRenderingMessage == "{No rendering defined for class '" \o plugin.name \o "'}"

\* How a call of render() ends: with a value or an exception, after these calls
\* of its hooks; cacheOps are the cache operations it made and store is the cache
\* as it leaves it (render() makes none, and leaves the cache as it found it).
Returned(value, calls) ==
    [raised |-> FALSE, value |-> value, error |-> <<>>, calls |-> calls,
     cacheOps |-> {}, store |-> cache]

Raised(hook, calls) ==
    [raised |-> TRUE, value |-> "", error |-> ErrorOf(hook), calls |-> calls,
     cacheOps |-> {}, store |-> cache]

\* ContentPlugin.get_context
get_context(instance) == [instance |-> instance]

\* ContentPlugin.render_to_string: the template engine's output for this
\* template and context
render_to_string(template, context) == ItemHtml(context.instance.pk)

\* A render that catches the failure of a hook and returns the error block.
render_swallows_failure(fail, instance) ==
    IF fail \in Hooks /\ (get_render_template # NoTemplate \/ fail = "get_render_template")
    THEN Returned(render_error(ErrorOf(fail)), {"get_render_template"})
    ELSE IF get_render_template = NoTemplate
    THEN Returned(NoRenderingMessage, {"get_render_template"})
    ELSE Returned(render_to_string(get_render_template, get_context(instance)), Hooks)

\* A render that goes on to the context and the template engine without a template.
render_without_template_check(fail, instance) ==
    IF fail = "get_render_template"
    THEN Raised(fail, {"get_render_template"})
    ELSE IF fail = "get_context"
    THEN Raised(fail, {"get_render_template", "get_context"})
    ELSE IF fail = "render_to_string" \/ get_render_template = NoTemplate
    THEN Raised("render_to_string", Hooks)
    ELSE Returned(render_to_string(get_render_template, get_context(instance)), Hooks)

\* A render that looks its own output up in the cache and stores it there.
render_with_own_cache(fail, instance) ==
    LET key == get_rendering_cache_key(instance.placeholder, instance)
    IN  IF fail \in Hooks
        THEN [Raised(fail, {"get_render_template"}) EXCEPT !.cacheOps = {"get"}]
        ELSE IF CacheGet(key) # None
        THEN [Returned(CacheGet(key)[1], {}) EXCEPT !.cacheOps = {"get"}]
        ELSE [Returned(ItemHtml(instance.pk), Hooks) EXCEPT
                !.cacheOps = {"get", "set"}, !.store = CacheSet(key, ItemHtml(instance.pk))]

\* ContentPlugin.render(request, instance); `fail` is the hook that raises in
\* this call ("none": no hook does).
render(fail, instance) ==
    IF fail = "get_render_template"
    THEN Raised(fail, {"get_render_template"})
    ELSE LET template == get_render_template
         IN  IF template = NoTemplate
             THEN Returned(NoRenderingMessage, {"get_render_template"})
             ELSE IF fail = "get_context"
             THEN Raised(fail, {"get_render_template", "get_context"})
             ELSE IF fail = "render_to_string"
             THEN Raised(fail, Hooks)
             ELSE Returned(render_to_string(template, get_context(instance)), Hooks)

\* ContentPlugin._render_contentitem
_render_contentitem(fail, instance) == render(fail, instance)

----------------------------------------------------------------------------
(* Calls *)

Idle ==
    [op |-> "none", pc |-> "done", site |-> 0, item |-> NoItem, html |-> None,
     result |-> None, keys |-> <<>>, known |-> {}, how |-> "", hooks |-> {},
     cacheOps |-> {}, fail |-> "", type_id |-> None, ready |-> FALSE, lookups |-> 0,
     instances |-> {}, msg |-> <<>>, parts |-> <<>>, request |-> "", ctx |-> <<>>,
     wraps |-> 0]

Call(op, s, it) == [Idle EXCEPT !.op = op, !.site = s, !.item = it]

NoPage == [site |-> 0, order |-> <<>>, bad |-> {}, blocks |-> <<>>]

\* The threads, of one process or of several, that render at the same time.
Threads == {"thread-1", "thread-2"}

\* No pipeline call is half way.
AtRest == req.pc \in {"done", "returned"}

Init ==
    /\ plugin \in Plugins
    /\ SITE_IDS \in SUBSET SiteIds
    /\ cache = <<>>
    /\ req = Idle
    /\ lastSet = [it \in ContentItems |-> None]
    /\ page = NoPage
    /\ contenttypes = None
    /\ reqs = [w \in Threads |-> Idle]

\* A row is added to the Site table.
AddSite(s) ==
    /\ s \notin SITE_IDS
    /\ SITE_IDS' = SITE_IDS \cup {s}
    /\ UNCHANGED <<plugin, cache, req, lastSet, others>>

\* A row is deleted from the Site table.
RemoveSite(s) ==
    /\ s \in SITE_IDS
    /\ SITE_IDS' = SITE_IDS \ {s}
    /\ UNCHANGED <<plugin, cache, req, lastSet, others>>

\* plugin.get_output_cache_key(placeholder_name, instance) under SITE_ID = s
GetOutputCacheKey(s, it) ==
    /\ AtRest
    /\ req' = [Call("get_output_cache_key", s, it) EXCEPT
                 !.keys = <<get_output_cache_key(s, it.placeholder, it)>>,
                 !.known = SITE_IDS]
    /\ UNCHANGED <<plugin, SITE_IDS, cache, lastSet, others>>

\* plugin.get_output_cache_keys(placeholder_name, instance) under SITE_ID = s
GetOutputCacheKeys(s, it) ==
    /\ AtRest
    /\ req' = [Call("get_output_cache_keys", s, it) EXCEPT
                 !.keys = get_output_cache_keys(s, it.placeholder, it),
                 !.known = SITE_IDS]
    /\ UNCHANGED <<plugin, SITE_IDS, cache, lastSet, others>>

\* plugin.get_cached_output(placeholder_name, instance) under SITE_ID = s
GetCachedOutput(s, it) ==
    /\ AtRest
    /\ req' = [Call("get_cached_output", s, it) EXCEPT
                 !.result = get_cached_output(s, it.placeholder, it),
                 !.cacheOps = {"get"}]
    /\ UNCHANGED <<plugin, SITE_IDS, cache, lastSet, others>>

\* plugin.set_cached_output(placeholder_name, instance, html) under SITE_ID = s
SetCachedOutput(s, it, html) ==
    /\ AtRest
    /\ cache' = set_cached_output(s, it.placeholder, it, html)
    /\ req' = [Call("set_cached_output", s, it) EXCEPT
                 !.html = Some(html), !.cacheOps = {"set"}]
    /\ lastSet' = [lastSet EXCEPT ![it] = Some([site |-> s, html |-> html])]
    /\ UNCHANGED <<plugin, SITE_IDS, others>>

\* The requests, and the dicts given to PluginContext: some of their keys are
\* keys of the context processors too.
Requests == {"GET /a", "GET /b"}

BaseKeys == {"instance", "request", "debug"}

BaseValues == {"x", "y"}

BaseDicts == UNION {[D -> BaseValues] : D \in SUBSET BaseKeys}

\* _STANDARD_REQUEST_CONTEXT_PROCESSORS, in order
_STANDARD_REQUEST_CONTEXT_PROCESSORS ==
    <<"request", "static", "csrf", "media", "i18n", "auth", "messages", "_add_debug">>

\* processor(request): what each context processor returns for a request
Processor(name, request) ==
    CASE name = "request"  -> [k \in {"request"} |-> request]
      [] name = "static"   -> [k \in {"STATIC_URL"} |-> "/static/"]
      [] name = "csrf"     -> [k \in {"csrf_token"} |-> "csrf token of " \o request]
      [] name = "media"    -> [k \in {"MEDIA_URL"} |-> "/media/"]
      [] name = "i18n"     -> [k \in {"LANGUAGES", "LANGUAGE_CODE", "LANGUAGE_BIDI"} |->
                                 IF k = "LANGUAGES" THEN "settings.LANGUAGES"
                                 ELSE k \o " of " \o request]
      [] name = "auth"     -> [k \in {"user", "perms"} |-> k \o " of " \o request]
      [] name = "messages" -> [k \in {"messages"} |-> "messages of " \o request]
      [] OTHER             -> [k \in {"debug"} |-> "settings.DEBUG"]

ContextKeys ==
    BaseKeys \cup UNION {DOMAIN Processor(_STANDARD_REQUEST_CONTEXT_PROCESSORS[n], "GET /a") :
                            n \in DOMAIN _STANDARD_REQUEST_CONTEXT_PROCESSORS}

\* A Context is its stack of layers, the last one on top; a layer is a dict, or
\* (nested) a Context that was given where a dict is expected.
DictLayer(d) == [nested |-> FALSE, d |-> d]

ContextLayer(ctx) == [nested |-> TRUE, d |-> ctx]

RECURSIVE ContextHas(_, _)
ContextHas(ctx, key) ==
    \E n \in DOMAIN ctx :
        IF ctx[n].nested THEN ContextHas(ctx[n].d, key) ELSE key \in DOMAIN ctx[n].d

\* Context.__getitem__: the topmost layer that has the key gives the value
RECURSIVE ContextGet(_, _)
ContextGet(ctx, key) ==
    LET top == CHOOSE n \in DOMAIN ctx :
                  /\ ContextHas(<<ctx[n]>>, key)
                  /\ \A m \in DOMAIN ctx : ContextHas(<<ctx[m]>>, key) => m <= n
    IN  IF ctx[top].nested THEN ContextGet(ctx[top].d, key) ELSE ctx[top].d[key]

\* The mapping a template sees: every key the context has, with its value.
Flatten(ctx) == [key \in {k \in ContextKeys : ContextHas(ctx, k)} |-> ContextGet(ctx, key)]

\* An update that adds to the value a key already has instead of hiding it.
update_appending(ctx, d) ==
    Append(ctx, DictLayer([k \in DOMAIN d |->
        IF ContextHas(ctx, k) THEN ContextGet(ctx, k) \o "," \o d[k] ELSE d[k]]))

\* Context.update(dict): pushes the dict as a new layer on top
update(ctx, d) == Append(ctx, DictLayer(d))

RECURSIVE UpdateAll(_, _, _)
UpdateAll(ctx, processors, request) ==
    IF processors = <<>> THEN ctx
    ELSE UpdateAll(update(ctx, Processor(Head(processors), request)), Tail(processors), request)

\* PluginContext(request, dict): Context.__init__ with the layer given, then one
\* update per context processor
PluginContext(request, layer) ==
    UpdateAll(<<layer>>, _STANDARD_REQUEST_CONTEXT_PROCESSORS, request)

\* How many times a context is wrapped again.
MaxWraps == 2

\* PluginContext(request, dict) for a plain dict
Wrap(request, base) ==
    /\ AtRest
    /\ req' = [Call("PluginContext", 0, NoItem) EXCEPT
                 !.how = "returned", !.request = request, !.wraps = 1,
                 !.ctx = PluginContext(request, DictLayer(base))]
    /\ UNCHANGED <<plugin, SITE_IDS, cache, lastSet, others>>

\* PluginContext(request, context) for the context made last
WrapAgain(request) ==
    /\ req.op = "PluginContext"
    /\ req.wraps < MaxWraps
    /\ req' = [req EXCEPT !.request = request, !.wraps = @ + 1,
                          !.ctx = PluginContext(request, ContextLayer(req.ctx))]
    /\ UNCHANGED <<plugin, SITE_IDS, cache, lastSet, others>>

\* The characters of the messages of errors, and the messages.
MaxMsgLen == 3

Alphabet == {"a", "<", ">", "&", "\"", "'", "\n"}

Messages == UNION {[1..n -> Alphabet] : n \in 0..MaxMsgLen}

\* plugin.render_error(error), str(error) being msg
RenderError(msg) ==
    /\ AtRest
    /\ req' = [Call("render_error", 0, NoItem) EXCEPT
                 !.how = "returned", !.msg = msg, !.parts = render_error_parts(msg),
                 !.result = Some(render_error(msg))]
    /\ UNCHANGED <<plugin, SITE_IDS, cache, lastSet, others>>

\* The primary keys the django_content_type table gives the row of the model.
ContentTypeIds == {11, 12}

\* A type_id that remembers a failed lookup as id 0.
type_id_memoises_failure ==
    IF plugin._type_id # None
    THEN [raised |-> FALSE, value |-> plugin._type_id, memo |-> plugin._type_id,
          lookups |-> 0]
    ELSE IF contenttypes = None
    THEN [raised |-> TRUE, value |-> None, memo |-> Some(0), lookups |-> 1]
    ELSE [raised |-> FALSE, value |-> contenttypes, memo |-> contenttypes, lookups |-> 1]

\* A type_id that swallows the DatabaseError and returns the unset field.
type_id_swallows_failure ==
    IF plugin._type_id # None
    THEN [raised |-> FALSE, value |-> plugin._type_id, memo |-> plugin._type_id,
          lookups |-> 0]
    ELSE IF contenttypes = None
    THEN [raised |-> FALSE, value |-> None, memo |-> None, lookups |-> 1]
    ELSE [raised |-> FALSE, value |-> contenttypes, memo |-> contenttypes, lookups |-> 1]

\* ContentPlugin.type_id: the value returned or the DatabaseError raised, the
\* _type_id field afterwards (memo) and the number of get_for_model() calls made.
type_id ==
    IF plugin._type_id # None
    THEN [raised |-> FALSE, value |-> plugin._type_id, memo |-> plugin._type_id,
          lookups |-> 0]
    ELSE IF contenttypes = None
    THEN [raised |-> TRUE, value |-> None, memo |-> None, lookups |-> 1]
    ELSE [raised |-> FALSE, value |-> contenttypes, memo |-> contenttypes, lookups |-> 1]

\* ContentPlugin.get_model_instances(): self.model.objects.all().
get_model_instances == ContentItems

\* The initial syncdb creates the table and the row of the plugin's model.
Syncdb(id) ==
    /\ AtRest
    /\ contenttypes = None
    /\ contenttypes' = Some(id)
    /\ UNCHANGED <<plugin, SITE_IDS, cache, req, lastSet, page, reqs>>

\* plugin.type_id
TypeId ==
    /\ AtRest
    /\ LET r == type_id
       IN  /\ plugin' = [plugin EXCEPT !._type_id = r.memo]
           /\ req' = [Call("type_id", 0, NoItem) EXCEPT
                        !.how = IF r.raised THEN "raised" ELSE "returned",
                        !.type_id = r.value, !.lookups = r.lookups,
                        !.ready = (contenttypes # None)]
    /\ UNCHANGED <<SITE_IDS, cache, lastSet, others>>

\* plugin.get_model_instances()
GetModelInstances ==
    /\ AtRest
    /\ req' = [Call("get_model_instances", 0, NoItem) EXCEPT
                 !.how = "returned", !.instances = get_model_instances]
    /\ UNCHANGED <<plugin, SITE_IDS, cache, lastSet, others>>

\* plugin.render(request, instance), called on its own; `fail` is the hook that
\* raises in this call.
RenderDirect(fail, it) ==
    /\ AtRest
    /\ LET r == render(fail, it)
       IN  /\ req' = [Call("render", 0, it) EXCEPT
                        !.fail = fail,
                        !.how = IF r.raised THEN "raised" ELSE "rendered",
                        !.result = IF r.raised THEN None ELSE Some(r.value),
                        !.hooks = r.calls, !.cacheOps = r.cacheOps]
           /\ cache' = r.store
    /\ UNCHANGED <<plugin, SITE_IDS, lastSet, others>>

\* The invalidation of an item when it is saved or deleted, by a process whose
\* SITE_ID is s: every key of get_output_cache_keys is deleted from the store.
ClearCache(s, it) ==
    /\ AtRest
    /\ cache' = CacheDeleteMany(get_output_cache_keys(s, it.placeholder, it))
    /\ req' = [Call("clear_cache", s, it) EXCEPT !.cacheOps = {"delete"}]
    /\ lastSet' = [lastSet EXCEPT ![it] = None]
    /\ UNCHANGED <<plugin, SITE_IDS, others>>

----------------------------------------------------------------------------
(* The render pipeline, per content item *)

\* The pipeline is called for item `it` by a process whose SITE_ID is s.
\* Caching disabled for the plugin: render directly. Else: look up the cache.
BeginRender(s, it) ==
    /\ AtRest
    /\ req' = [Call("render_item", s, it) EXCEPT
                 !.pc = IF cache_output THEN "lookup" ELSE "render"]
    /\ UNCHANGED <<plugin, SITE_IDS, cache, lastSet, others>>

\* The cache lookup: a hit is returned as it is, a miss goes on to render.
Lookup ==
    /\ req.pc = "lookup"
    /\ LET cached == get_cached_output(req.site, req.item.placeholder, req.item)
       IN  req' = IF cached # None
                  THEN [req EXCEPT !.pc = "returned", !.how = "hit", !.result = cached,
                                   !.cacheOps = @ \cup {"get"}]
                  ELSE [req EXCEPT !.pc = "render", !.cacheOps = @ \cup {"get"}]
    /\ UNCHANGED <<plugin, SITE_IDS, cache, lastSet, others>>

\* render() is called. A failure becomes the render_error block, returned and
\* not cached; an output goes on to be stored when the plugin caches.
Render(fail) ==
    /\ req.pc = "render"
    /\ LET r == _render_contentitem(fail, req.item)
       IN  /\ req' = IF r.raised
                     THEN [req EXCEPT !.pc = "returned", !.how = "error",
                                      !.result = Some(render_error(r.error)),
                                      !.hooks = r.calls]
                     ELSE IF cache_output
                     THEN [req EXCEPT !.pc = "store", !.result = Some(r.value),
                                      !.hooks = r.calls]
                     ELSE [req EXCEPT !.pc = "returned", !.how = "rendered",
                                      !.result = Some(r.value), !.hooks = r.calls]
           /\ cache' = r.store
    /\ UNCHANGED <<plugin, SITE_IDS, lastSet, others>>

\* The output is stored with set_cached_output, then returned.
Store ==
    /\ req.pc = "store"
    /\ cache' = set_cached_output(req.site, req.item.placeholder, req.item, req.result[1])
    /\ req' = [req EXCEPT !.pc = "returned", !.how = "rendered",
                          !.cacheOps = @ \cup {"set"}]
    /\ lastSet' = [lastSet EXCEPT ![req.item] = Some([site |-> req.site, html |-> req.result[1]])]
    /\ UNCHANGED <<plugin, SITE_IDS, others>>

----------------------------------------------------------------------------
(* A page: the pipeline is called for each item of a placeholder in turn *)

\* The orders a page can hold the items in.
PageOrders ==
    {<<it>> : it \in ContentItems}
        \cup {<<a, b>> : <<a, b>> \in {ab \in ContentItems \X ContentItems : ab[1] # ab[2]}}

PageDone == Len(page.blocks) = Len(page.order)

\* A page is requested from a process whose SITE_ID is s; render raises for the
\* items of `bad` in this request.
StartPage(s, order, bad) ==
    /\ AtRest /\ PageDone
    /\ page' = [site |-> s, order |-> order, bad |-> bad, blocks |-> <<>>]
    /\ req' = Idle
    /\ UNCHANGED <<plugin, SITE_IDS, cache, lastSet, contenttypes, reqs>>

\* The pipeline is called for the next item of the page.
PageBegin ==
    /\ ~PageDone /\ req.pc = "done"
    /\ BeginRender(page.site, page.order[Len(page.blocks) + 1])

\* The failing hook is one that render() reaches: get_context and
\* render_to_string are reached only with a template.
Reached(fail) ==
    fail = "get_render_template" \/ (fail \in Hooks /\ plugin.render_template # NoTemplate)

\* render() is called for the item: a hook it reaches fails when the item is one
\* of `bad`, and none fails otherwise.
PageRender(fail) ==
    /\ req.pc = "render"
    /\ IF req.item \in page.bad THEN Reached(fail) ELSE fail = "none"
    /\ Render(fail)

\* What the pipeline returned is the item's block of the page.
PageCollect ==
    /\ ~PageDone /\ req.op = "render_item" /\ req.pc = "returned"
    /\ page' = [page EXCEPT !.blocks =
                   Append(@, [item |-> req.item, how |-> req.how, html |-> req.result])]
    /\ req' = Idle
    /\ UNCHANGED <<plugin, SITE_IDS, cache, lastSet, contenttypes, reqs>>

----------------------------------------------------------------------------
(* Specifications *)

\* The key derivation against a changing Site table.
NextKeys ==
    \/ \E s \in SiteIds : AddSite(s)
    \/ \E s \in SiteIds : RemoveSite(s)
    \/ \E s \in SiteIds, it \in ContentItems : GetOutputCacheKey(s, it)
    \/ \E s \in SiteIds, it \in ContentItems : GetOutputCacheKeys(s, it)

SpecKeys == Init /\ [][NextKeys]_vars

\* render() called on its own, with outputs stored in the cache around it.
\* render() reads render_template alone: the other attributes are left at the
\* defaults of the class.
NextRender ==
    \/ \E fail \in Hooks \cup {"none"}, it \in ContentItems : RenderDirect(fail, it)
    \/ \E s \in SiteIds, it \in ContentItems, html \in Htmls : SetCachedOutput(s, it, html)

InitRender ==
    Init /\ SITE_IDS = SiteIds /\ plugin.cache_output /\ ~plugin.cache_output_per_site

SpecRender == InitRender /\ [][NextRender]_vars

\* The pipeline in several threads sharing the cache: each step of a thread is
\* one action, so the lookups, renders and stores of the threads interleave.
ConcBegin(w, s, it) ==
    /\ reqs[w].pc \in {"done", "returned"}
    /\ reqs' = [reqs EXCEPT ![w] = [Call("render_item", s, it) EXCEPT
                   !.pc = IF cache_output THEN "lookup" ELSE "render"]]
    /\ UNCHANGED <<plugin, SITE_IDS, cache, req, lastSet, page, contenttypes>>

ConcLookup(w) ==
    /\ reqs[w].pc = "lookup"
    /\ LET r == reqs[w]
           cached == get_cached_output(r.site, r.item.placeholder, r.item)
       IN  reqs' = [reqs EXCEPT ![w] =
                      IF cached # None
                      THEN [r EXCEPT !.pc = "returned", !.how = "hit", !.result = cached,
                                     !.cacheOps = @ \cup {"get"}]
                      ELSE [r EXCEPT !.pc = "render", !.cacheOps = @ \cup {"get"}]]
    /\ UNCHANGED <<plugin, SITE_IDS, cache, req, lastSet, page, contenttypes>>

ConcRender(w, fail) ==
    /\ reqs[w].pc = "render"
    /\ LET r == reqs[w]
           out == _render_contentitem(fail, r.item)
       IN  /\ reqs' = [reqs EXCEPT ![w] =
                         IF out.raised
                         THEN [r EXCEPT !.pc = "returned", !.how = "error",
                                        !.result = Some(render_error(out.error)),
                                        !.hooks = out.calls]
                         ELSE IF cache_output
                         THEN [r EXCEPT !.pc = "store", !.result = Some(out.value),
                                        !.hooks = out.calls]
                         ELSE [r EXCEPT !.pc = "returned", !.how = "rendered",
                                        !.result = Some(out.value), !.hooks = out.calls]]
           /\ cache' = out.store
    /\ UNCHANGED <<plugin, SITE_IDS, req, lastSet, page, contenttypes>>

ConcStore(w) ==
    /\ reqs[w].pc = "store"
    /\ LET r == reqs[w]
       IN  /\ cache' = set_cached_output(r.site, r.item.placeholder, r.item, r.result[1])
           /\ reqs' = [reqs EXCEPT ![w] = [r EXCEPT !.pc = "returned", !.how = "rendered",
                                                    !.cacheOps = @ \cup {"set"}]]
           /\ lastSet' = [lastSet EXCEPT ![r.item] =
                            Some([site |-> r.site, html |-> r.result[1]])]
    /\ UNCHANGED <<plugin, SITE_IDS, req, page, contenttypes>>

\* settings.SITE_ID of the process the plugin instance lives in.
ProcessSiteIds == {1}

\* Every method of the plugin called in any order by its process, around the
\* initial syncdb.
NextPlugin ==
    \/ \E id \in ContentTypeIds : Syncdb(id)
    \/ TypeId
    \/ GetModelInstances
    \/ \E fail \in Hooks \cup {"none"}, it \in ContentItems : RenderDirect(fail, it)
    \/ \E s \in ProcessSiteIds, it \in ContentItems : GetOutputCacheKey(s, it)
    \/ \E s \in ProcessSiteIds, it \in ContentItems : GetOutputCacheKeys(s, it)
    \/ \E s \in ProcessSiteIds, it \in ContentItems : GetCachedOutput(s, it)
    \/ \E s \in ProcessSiteIds, it \in ContentItems, html \in Htmls :
          SetCachedOutput(s, it, html)

InitPlugin == Init /\ SITE_IDS = SiteIds

SpecPlugin == InitPlugin /\ [][NextPlugin]_vars

\* The error block made for one message, every message in turn; render_error
\* reads no attribute and no state.
NextError == \E msg \in Messages : req = Idle /\ RenderError(msg)

SpecError == InitRender /\ [][NextError]_vars

\* Contexts made from dicts and from contexts; PluginContext reads no attribute.
NextContext ==
    \/ \E request \in Requests, base \in BaseDicts : Wrap(request, base)
    \/ \E request \in Requests : WrapAgain(request)

SpecContext == InitRender /\ [][NextContext]_vars

\* Threads rendering items of a caching plugin at the same time, each for the
\* site of its process.
NextConc ==
    \/ \E w \in Threads, s \in SiteIds, it \in ContentItems : ConcBegin(w, s, it)
    \/ \E w \in Threads : ConcLookup(w)
    \/ \E w \in Threads, fail \in Hooks \cup {"none"} : ConcRender(w, fail)
    \/ \E w \in Threads : ConcStore(w)

InitConc == Init /\ SITE_IDS = SiteIds /\ plugin.cache_output

SpecConc == InitConc /\ [][NextConc]_vars

\* Pages rendered one after the other; every site has its row.
NextPage ==
    \/ \E s \in SiteIds, order \in PageOrders, bad \in SUBSET ContentItems :
          StartPage(s, order, bad)
    \/ PageBegin
    \/ Lookup
    \/ \E fail \in Hooks \cup {"none"} : PageRender(fail)
    \/ Store
    \/ PageCollect

InitPage == Init /\ SITE_IDS = SiteIds

SpecPage == InitPage /\ [][NextPage]_vars

\* The cache methods, the invalidation and the Site table.
NextCache ==
    \/ \E s \in SiteIds : AddSite(s)
    \/ \E s \in SiteIds : RemoveSite(s)
    \/ \E s \in SiteIds, it \in ContentItems : GetCachedOutput(s, it)
    \/ \E s \in SiteIds, it \in ContentItems, html \in Htmls : SetCachedOutput(s, it, html)
    \/ \E s \in SiteIds, it \in ContentItems : ClearCache(s, it)

\* These methods read cache_output_per_site alone: the other attributes are left
\* at the defaults of the class.
InitCache == Init /\ plugin.cache_output /\ plugin.render_template = NoTemplate

SpecCache == InitCache /\ [][NextCache]_vars

\* Outputs stored and read back by the processes of every site, the Site table
\* being complete.
NextStore ==
    \/ \E s \in SiteIds, it \in ContentItems : GetCachedOutput(s, it)
    \/ \E s \in SiteIds, it \in ContentItems, html \in Htmls : SetCachedOutput(s, it, html)

InitStore == InitCache /\ SITE_IDS = SiteIds

SpecStore == InitStore /\ [][NextStore]_vars

\* The render pipeline, with the cache written and cleared around it.
Next ==
    \/ \E s \in SiteIds, it \in ContentItems : BeginRender(s, it)
    \/ Lookup
    \/ \E fail \in Hooks \cup {"none"} : Render(fail)
    \/ Store
    \/ \E s \in SiteIds, it \in ContentItems, html \in Htmls : SetCachedOutput(s, it, html)
    \/ \E s \in SiteIds, it \in ContentItems : ClearCache(s, it)

\* The Site table holds every site but the one configured last; a plugin
\* without a template is one that caches for all sites together.
InitPipeline ==
    /\ Init
    /\ SITE_IDS = SiteIds \ {MaxSite}
    /\ plugin.render_template = NoTemplate => ~plugin.cache_output_per_site

Spec == InitPipeline /\ [][Next]_vars

----------------------------------------------------------------------------
(* Properties of the key derivation (SpecKeys) *)

BaseKeyOf(it) == get_rendering_cache_key(it.placeholder, it)

\* C1: with cache_output_per_site enabled, a get_output_cache_keys call returns
\* one site-suffixed key per row of the Site table as it was at the call, plus one
\* for SITE_ID when SITE_ID is not a row: |rows| + 1 keys then, |rows| keys
\* otherwise, no key twice.
C1_PerSiteKeyListing ==
    (req.op = "get_output_cache_keys" /\ plugin.cache_output_per_site) =>
        /\ Len(req.keys) = Cardinality(req.known) + (IF req.site \in req.known THEN 0 ELSE 1)
        /\ Range(req.keys) = {SiteKey(BaseKeyOf(req.item), s) : s \in req.known \cup {req.site}}
        /\ Cardinality(Range(req.keys)) = Len(req.keys)

C1_Witness ==
    /\ req.op = "get_output_cache_keys" /\ plugin.cache_output_per_site
    /\ req.known # {} /\ req.site \notin req.known
    /\ Len(req.keys) = Cardinality(req.known) + 1

\* C2: with cache_output_per_site disabled, a get_output_cache_keys call returns
\* exactly one key, the base key without a site suffix, whatever the Site table
\* holds and whatever SITE_ID is.
C2_SingleBaseKey ==
    (req.op = "get_output_cache_keys" /\ ~plugin.cache_output_per_site) =>
        req.keys = <<BaseKeyOf(req.item)>>

C2_Witness ==
    /\ req.op = "get_output_cache_keys" /\ ~plugin.cache_output_per_site
    /\ req.known # {} /\ req.site \notin req.known
    /\ Len(req.keys) = 1

\* C5: the key a get_output_cache_key call returned is the key the same item,
\* placeholder and site give at any later time (the Site table may have changed
\* since), and with cache_output_per_site enabled every other site gives another key.
C5_KeyStableAndSiteScoped ==
    req.op = "get_output_cache_key" =>
        /\ req.keys = <<get_output_cache_key(req.site, req.item.placeholder, req.item)>>
        /\ plugin.cache_output_per_site =>
              \A s \in SiteIds \ {req.site} :
                  get_output_cache_key(s, req.item.placeholder, req.item) # req.keys[1]

C5_Witness ==
    /\ req.op = "get_output_cache_key" /\ plugin.cache_output_per_site
    /\ req.known # SITE_IDS
    /\ req.keys = <<SiteKey(BaseKeyOf(req.item), req.site)>>

----------------------------------------------------------------------------
(* Properties of the cache methods (SpecCache) *)

\* C3: while an item is not cleared, what its last set_cached_output call stored
\* is what get_cached_output returns for it under the site of that call, and what
\* a get_cached_output call made since has returned, whatever was written or
\* cleared for other items and whatever rows came and went in the Site table.
C3_RoundTrip ==
    \A it \in ContentItems :
        lastSet[it] # None =>
            LET w == lastSet[it][1]
            IN  /\ get_cached_output(w.site, it.placeholder, it) = Some(w.html)
                /\ (req.op = "get_cached_output" /\ req.item = it /\ req.site = w.site)
                      => req.result = Some(w.html)

C3_Witness ==
    /\ req.op = "get_cached_output" /\ req.result # None
    /\ lastSet[req.item] # None /\ lastSet[req.item][1].site = req.site
    /\ \E other \in ContentItems \ {req.item} :
          lastSet[other] # None /\ lastSet[other][1].html # req.result[1]

\* C4 (as claimed): once an item has been cleared, get_cached_output returns None
\* for it under every SITE_ID.
C4_ClearRemovesEverySite ==
    req.op = "clear_cache" =>
        \A s \in SiteIds : get_cached_output(s, req.item.placeholder, req.item) = None

----------------------------------------------------------------------------
(* Properties of the render pipeline (Spec) *)

\* Every key an item can be stored under.
ItemKeys(it) == {BaseKeyOf(it)} \cup {SiteKey(BaseKeyOf(it), s) : s \in SiteIds}

\* The error blocks render_error can produce.
ErrorBlocks == {render_error(ErrorOf(h)) : h \in Hooks}

RenderCall == req.op = "render_item"

RenderInvoked == "get_render_template" \in req.hooks

\* The key of the pipeline call in progress.
ReqKey == get_output_cache_key(req.site, req.item.placeholder, req.item)

\* C6: with cache_output enabled and cache_output_per_site disabled, the store
\* holds at most one entry per item, the output stored for an item under one site
\* is what get_cached_output returns for it under every site, and a pipeline call
\* that hits the cache under any site returns it.
C6_SharedAcrossSites ==
    (plugin.cache_output /\ ~plugin.cache_output_per_site) =>
        \A it \in ContentItems :
            /\ Cardinality(DOMAIN cache \cap ItemKeys(it)) <= 1
            /\ lastSet[it] # None =>
                  /\ \A s \in SiteIds :
                        get_cached_output(s, it.placeholder, it) = Some(lastSet[it][1].html)
                  /\ (RenderCall /\ req.how = "hit" /\ req.item = it)
                        => req.result = Some(lastSet[it][1].html)

C6_Witness ==
    /\ plugin.cache_output /\ ~plugin.cache_output_per_site
    /\ RenderCall /\ req.how = "hit"
    /\ lastSet[req.item] # None /\ lastSet[req.item][1].site # req.site
    /\ req.result = Some(lastSet[req.item][1].html)

\* C7: the store never holds an error block; a pipeline call whose render failed
\* has made no cache write and returns the error block, the step that fails leaves
\* the store as it was, the entry of the item is absent after the failure of a
\* caching plugin, and a lookup that misses goes on to call render.
C7_ErrorNeverCached ==
    /\ [](/\ \A k \in DOMAIN cache : cache[k] \notin ErrorBlocks
          /\ (RenderCall /\ req.how = "error") =>
                /\ "set" \notin req.cacheOps
                /\ req.result # None /\ req.result[1] \in ErrorBlocks
                /\ plugin.cache_output => CacheGet(ReqKey) = None)
    /\ [][/\ (req.pc = "render" /\ req'.how = "error") => cache' = cache
          /\ (req.pc = "lookup" /\ CacheGet(ReqKey) = None) => req'.pc = "render"]_vars

C7_Witness ==
    /\ RenderCall /\ req.how = "error" /\ plugin.cache_output
    /\ req.hooks = Hooks
    /\ CacheGet(ReqKey) = None /\ cache # <<>>

\* C8: a pipeline call of a plugin with cache_output = False makes no cache
\* operation, never looks up or stores, returns only after render was invoked,
\* and none of its steps changes the store, whatever the store holds.
C8_UncachedPlugin ==
    /\ []((RenderCall /\ ~plugin.cache_output) =>
            /\ req.cacheOps = {}
            /\ req.pc \in {"render", "returned"}
            /\ req.pc = "returned" => (RenderInvoked /\ req.how \in {"rendered", "error"}))
    /\ [][(req'.op = "render_item" /\ ~plugin.cache_output) => cache' = cache]_vars

C8_Witness ==
    /\ RenderCall /\ ~plugin.cache_output
    /\ req.pc = "returned" /\ req.how = "rendered"
    /\ CacheGet(ReqKey) # None /\ CacheGet(ReqKey) # req.result

\* C9: a pipeline call that hits the cache returns the entry of the item's key
\* as it is, has invoked no hook of render and has made the get alone; the lookup
\* step leaves the store as it was.
C9_CacheHit ==
    /\ []((RenderCall /\ req.how = "hit") =>
            /\ plugin.cache_output
            /\ req.result # None /\ req.result = CacheGet(ReqKey)
            /\ req.hooks = {}
            /\ req.cacheOps = {"get"})
    /\ [][(req.pc = "lookup" /\ req'.how = "hit") =>
              (cache' = cache /\ req'.result = CacheGet(ReqKey))]_vars

C9_Witness ==
    /\ RenderCall /\ req.how = "hit" /\ plugin.cache_output_per_site
    /\ req.result # Some(ItemHtml(req.item.pk))
    /\ \E s \in SiteIds \ {req.site} :
          CacheGet(SiteKey(BaseKeyOf(req.item), s)) \notin {None, req.result}

\* C10: a lookup that misses goes on to call render; a pipeline call of a caching
\* plugin that returns a rendered output has invoked render after a get and has
\* stored the output: get_cached_output for the item and site returns what the
\* call returned. The store step writes the item's key alone.
C10_MissRendersAndStores ==
    /\ []((RenderCall /\ plugin.cache_output) =>
            /\ req.pc \in {"render", "store"} => req.cacheOps = {"get"}
            /\ req.pc = "store" => (RenderInvoked /\ req.result # None)
            /\ (req.pc = "returned" /\ req.how = "rendered") =>
                  /\ RenderInvoked
                  /\ req.cacheOps = {"get", "set"}
                  /\ req.result # None
                  /\ get_cached_output(req.site, req.item.placeholder, req.item) = req.result)
    /\ [][/\ (req.pc = "lookup" /\ CacheGet(ReqKey) = None) =>
                (req'.pc = "render" /\ cache' = cache)
          /\ (req.pc = "render" /\ plugin.cache_output /\ req'.how # "error") =>
                (req'.pc = "store" /\ cache' = cache)
          /\ req.pc = "store" =>
                (req'.pc = "returned" /\ cache' = CacheSet(ReqKey, req.result[1]))]_vars

C10_Witness ==
    /\ RenderCall /\ plugin.cache_output /\ plugin.cache_output_per_site
    /\ req.pc = "returned" /\ req.how = "rendered"
    /\ CacheGet(ReqKey) = Some(ItemHtml(req.item.pk))
    /\ Cardinality(DOMAIN cache) > 1

----------------------------------------------------------------------------
(* Properties of a page (SpecPage) *)

ErrorBlockStart ==
    "<div style=\"color: red; border: 1px solid red; padding: 5px;\"><p><strong>Error:</strong></p>"

\* The error blocks as they are to read, one per hook that can fail.
ExpectedErrorBlocks ==
    {ErrorBlockStart \o "<p>no &lt;t&gt;</p></div>",
     ErrorBlockStart \o "<p>a&amp;b</p></div>",
     ErrorBlockStart \o "<p>bad<br />&quot;x&quot;</p></div>"}

\* The outputs of a render that does not fail.
NormalOutputs == Htmls \cup {"{No rendering defined for class 'ItemPlugin'}"}

----------------------------------------------------------------------------
(* Properties of render() (SpecRender) *)

\* C12: when get_render_template returns no template (it does not raise, and
\* render_template is not set), render returns the "No rendering defined" message
\* as its output, raises nothing and calls neither get_context nor the template
\* engine, also when those would have failed.
C12_NoTemplateShortCircuit ==
    (req.op = "render" /\ plugin.render_template = NoTemplate
        /\ req.fail # "get_render_template") =>
        /\ req.how = "rendered"
        /\ req.result = Some("{No rendering defined for class 'ItemPlugin'}")
        /\ req.hooks = {"get_render_template"}

C12_Witness ==
    /\ req.op = "render" /\ plugin.render_template = NoTemplate
    /\ req.fail = "render_to_string"
    /\ req.how = "rendered" /\ req.hooks = {"get_render_template"}

\* C13: a call of render, with or without a template, returning or raising,
\* makes no cache operation (get, set or delete) and leaves the store as it was.
C13_RenderLeavesCacheAlone ==
    /\ [](req.op = "render" => req.cacheOps = {})
    /\ [][req'.op = "render" => cache' = cache]_vars

C13_Witness ==
    /\ req.op = "render" /\ req.how = "raised" /\ req.hooks = Hooks
    /\ \E k \in DOMAIN cache : k = BaseKeyOf(req.item) /\ cache[k] # ItemHtml(req.item.pk)

----------------------------------------------------------------------------
(* Properties of the plugin instance (SpecPlugin) *)

\* C14, as stated: no call of a method of the plugin changes a field of the
\* plugin instance.
C14_NoFieldChanges == [][plugin' = plugin]_vars

\* C14, amended: the only field a call changes is _type_id, and only the first
\* type_id access that succeeds changes it, from None to the id it returns; every
\* other call, and every later or failing type_id access, leaves all fields alone.
C14_OnlyTypeIdMemo ==
    [][plugin' # plugin =>
          /\ req'.op = "type_id" /\ req'.how = "returned" /\ req'.lookups = 1
          /\ plugin._type_id = None /\ contenttypes # None
          /\ req'.type_id = contenttypes
          /\ plugin' = [plugin EXCEPT !._type_id = contenttypes]]_vars

C14_Witness ==
    /\ plugin._type_id # None
    /\ req.op = "type_id" /\ req.lookups = 0 /\ req.type_id = plugin._type_id
    /\ cache # <<>>

\* C15: a type_id access made before the initial syncdb raises: no id is
\* returned, one lookup was made and not repeated, and _type_id stays unset.
C15_RegistryFailurePropagates ==
    (req.op = "type_id" /\ ~req.ready) =>
        /\ req.how = "raised"
        /\ req.type_id = None
        /\ req.lookups = 1
        /\ plugin._type_id = None

C15_Witness ==
    /\ req.op = "type_id" /\ ~req.ready /\ req.how = "raised"
    /\ contenttypes # None

----------------------------------------------------------------------------
(* Properties of render_error (SpecError) *)

MarkupChars == {"<", ">", "&", "\"", "'"}

Entities == {"&lt;", "&gt;", "&amp;", "&quot;", "&#39;"}

\* The fragments of an error block that come from the message.
BodyOf(parts) == SubSeq(parts, 3, Len(parts) - 2)

CountIn(seq, S) == Cardinality({n \in DOMAIN seq : seq[n] \in S})

\* C16: in the error block of every message, no fragment that comes from the
\* message is a bare markup character: each markup character of the message is
\* there as its entity, next to the plain characters and the line and paragraph
\* breaks that linebreaks adds.
C16_ErrorMessageEscaped ==
    req.op = "render_error" =>
        /\ req.result = Some(Join(req.parts))
        /\ req.parts[2] = "<p>" /\ req.parts[Len(req.parts) - 1] = "</p>"
        /\ \A n \in DOMAIN BodyOf(req.parts) :
              /\ BodyOf(req.parts)[n] \notin MarkupChars
              /\ BodyOf(req.parts)[n] \in Entities \cup {"a", "<br />", "</p>\n\n<p>"}
        /\ CountIn(BodyOf(req.parts), Entities) = CountIn(req.msg, MarkupChars)
        /\ CountIn(BodyOf(req.parts), {"a"}) = CountIn(req.msg, {"a"})

C16_Witness ==
    /\ req.op = "render_error" /\ req.msg = <<"<", "a", ">">>
    /\ req.result = Some("<div style=\"color: red; border: 1px solid red; padding: 5px;\">"
                          \o "<p><strong>Error:</strong></p><p>&lt;a&gt;</p></div>")

----------------------------------------------------------------------------
(* Properties of PluginContext (SpecContext) *)

\* C17: wrapping a context again with the request it was wrapped with gives the
\* same mapping: every key has the value it had after the first wrapping, and
\* no key is added, whatever keys the base dict shares with the processors.
C17_WrapIdempotent ==
    [][(/\ req.op = "PluginContext" /\ req'.op = "PluginContext"
        /\ req'.wraps = req.wraps + 1
        /\ req'.request = req.request)
          => Flatten(req'.ctx) = Flatten(req.ctx)]_vars

C17_Witness ==
    /\ req.op = "PluginContext" /\ req.wraps = 2
    /\ req.ctx[1].nested
    /\ ContextGet(req.ctx[1].d, "request") = req.request
    /\ ~req.ctx[1].d[1].nested
    /\ DOMAIN req.ctx[1].d[1].d = BaseKeys
    /\ Flatten(req.ctx)["instance"] = "x"
    /\ Flatten(req.ctx)["request"] = req.request

----------------------------------------------------------------------------
(* Properties of renders at the same time (SpecConc) *)

\* What render() gives for an item when nothing fails.
RenderOutput(it) == render("none", it).value

\* Both threads missed, rendered and stored the same item.
BothRendered(it) ==
    \A w \in Threads :
        /\ reqs[w].item = it /\ reqs[w].pc = "returned" /\ reqs[w].how = "rendered"
        /\ reqs[w].cacheOps = {"get", "set"} /\ reqs[w].hooks # {}

----------------------------------------------------------------------------
(* One entry per call (SpecStore), and the key among the keys (SpecKeys) *)

\* The key of the call logged in r.
KeyOfCall(r) == get_output_cache_key(r.site, r.item.placeholder, r.item)

\* C19: a set_cached_output call stores the html at get_output_cache_key, the key
\* of the caller's site when the plugin caches per site, and leaves every other
\* entry as it was, present or absent; a get_cached_output call returns what is
\* at that key, whatever the other entries are, and changes nothing.
C19_OneEntryPerCall ==
    [][/\ req'.op = "set_cached_output" =>
            /\ KeyOfCall(req') \in DOMAIN cache'
            /\ Some(cache'[KeyOfCall(req')]) = req'.html
            /\ DOMAIN cache' = DOMAIN cache \cup {KeyOfCall(req')}
            /\ \A k \in DOMAIN cache \ {KeyOfCall(req')} : cache'[k] = cache[k]
            /\ plugin' = plugin
       /\ req'.op = "get_cached_output" =>
            /\ req'.result = IF KeyOfCall(req') \in DOMAIN cache
                             THEN Some(cache[KeyOfCall(req')]) ELSE None
            /\ cache' = cache /\ plugin' = plugin /\ lastSet' = lastSet]_vars

C19_Witness ==
    /\ req.op = "set_cached_output" /\ cache_output_per_site
    /\ KeyOfCall(req) = SiteKey(BaseKeyOf(req.item), req.site)
    /\ Cardinality(DOMAIN cache) >= 3
    /\ \E k \in DOMAIN cache \cap ItemKeys(req.item) :
          k # KeyOfCall(req) /\ Some(cache[k]) # req.html

\* C20: whatever the plugin caches per site or not, the Site table holds, and
\* the caller's SITE_ID is, the key get_output_cache_key gives is one of the keys
\* get_output_cache_keys gives in the same state; so is it for the call logged,
\* as long as the Site table is the one the call saw.
C20_KeyAmongKeys ==
    /\ \A s \in SiteIds, it \in ContentItems :
          get_output_cache_key(s, it.placeholder, it)
              \in Range(get_output_cache_keys(s, it.placeholder, it))
    /\ (req.op = "get_output_cache_keys" /\ req.known = SITE_IDS) =>
          KeyOfCall(req) \in Range(req.keys)

C20_Witness ==
    /\ req.op = "get_output_cache_keys" /\ req.known = SITE_IDS
    /\ cache_output_per_site
    /\ SITE_IDS # {} /\ req.site \notin SITE_IDS
    /\ req.keys[Len(req.keys)] = KeyOfCall(req)

====
